---------------------------- MODULE Spec2Model ----------------------------
(***************************************************************************)
(* A model of the sofars routines pn00 (bias/precession/nutation results,  *)
(* IAU 2000), obl80 (mean obliquity, IAU 1980), refco (refraction          *)
(* constants) and ld (light deflection by one body).                       *)
(*                                                                         *)
(* Numbers.  An f64 is modelled as a value `Val', a tuple <<tag, _, _>>:   *)
(*   <<"num", w, f>>   the decimal w + f/10^6, f in 0..999999              *)
(*   <<"sci", m, e>>   the literal m * 10^e (a non-zero source literal     *)
(*                     with more than six decimals)                        *)
(*   <<"sym", s, 0>>   a named constant of crate::consts whose value the   *)
(*                     sources here do not give (DAS2R, SRS); positive     *)
(*   <<"nan",0,0>>, <<"inf", +-1, 0>>   the IEEE specials                  *)
(*   <<"fun", g, i, x>>  the i-th number returned by the routine g of this *)
(*                     crate, whose source is not among the files modelled,*)
(*                     called with the arguments x: a pure function of x,  *)
(*                     otherwise unknown (finite)                          *)
(*   <<op, a, b>>      the value of the expression  a op b  that the code  *)
(*                     evaluates, kept as an expression when the decimal   *)
(*                     result is not exactly representable above           *)
(* Arithmetic is exact: sums, differences and those products and quotients *)
(* that fit six decimals are computed, everything else stays the           *)
(* expression the code wrote.  Two values are equal in the model only if   *)
(* the code computed them by the same expression over the same operands,   *)
(* so an equality of the model is an equality of the f64 results; rounding *)
(* itself is not modelled.  The only rewritings applied are x + 0 = x,     *)
(* x - 0 = x, 0 * x = 0 and 0 / x = 0 for finite x (non-zero divisor),     *)
(* 1 * x = x, which hold for f64 under == (the sign of a zero aside).      *)
(***************************************************************************)
EXTENDS Integers, Sequences, FiniteSets, TLC

(***************************************************************************)
(* f64 values                                                              *)
(***************************************************************************)
Num(w, f) == <<"num", w, f>>
Sci(m, e) == <<"sci", m, e>>
Sym(s) == <<"sym", s, 0>>
Fun(g, i, x) == <<"fun", g, i, x>>
Op(o, a, b) == <<o, a, b>>
Zero == Num(0, 0)
One == Num(1, 0)
NaN == <<"nan", 0, 0>>
PInf == <<"inf", 1, 0>>
NInf == <<"inf", -1, 0>>

IsNum(a) == a[1] = "num"
IsNaN(a) == a[1] = "nan"
IsInf(a) == a[1] = "inf"
IsLeaf(a) == a[1] \in {"num", "sci", "sym", "nan", "inf", "fun"}

\* w + f/10^6 with f brought back into 0..999999
DecNorm(w, f) == Num(w + (f \div 1000000), f % 1000000)
DecAdd(a, b) == DecNorm(a[2] + b[2], a[3] + b[3])
DecNeg(a) == DecNorm(-a[2], -a[3])
DecSub(a, b) == DecAdd(a, DecNeg(b))
DecLt(a, b) == a[2] < b[2] \/ (a[2] = b[2] /\ a[3] < b[3])

\* a decimal whose product by a small integer stays in range
IsDec(a) == IsNum(a) /\ a[2] \in -1000000..1000000
\* a decimal with no fractional part and a small magnitude
IsSmallInt(a) == IsNum(a) /\ a[3] = 0 /\ a[2] \in -2000..2000
\* a decimal of at most three decimals and a small magnitude, and its
\* value in thousandths
IsMilli(a) == IsNum(a) /\ a[3] % 1000 = 0 /\ a[2] \in -40..40
Milli(a) == a[2] * 1000 + (a[3] \div 1000)

\* The order of f64: -inf < every decimal < +inf; NaN compares false.
Rank(a) == IF IsInf(a) THEN a[2] ELSE 0
Lt(a, b) ==
    /\ ~IsNaN(a) /\ ~IsNaN(b)
    /\ \/ Rank(a) < Rank(b)
       \/ Rank(a) = 0 /\ Rank(b) = 0 /\ DecLt(a, b)
Le(a, b) == ~IsNaN(a) /\ ~IsNaN(b) /\ ~Lt(b, a)
Gt(a, b) == Lt(b, a)
Ge(a, b) == Le(b, a)

\* f64::max and f64::min: a NaN operand is ignored.
Max(a, b) == IF IsNaN(a) THEN b ELSE IF IsNaN(b) THEN a
             ELSE IF Lt(a, b) THEN b ELSE a
Min(a, b) == IF IsNaN(a) THEN b ELSE IF IsNaN(b) THEN a
             ELSE IF Lt(b, a) THEN b ELSE a

\* What the model knows of an expression: that it is not zero, and that
\* it is finite (no division by zero inside it).
RECURSIVE NonZero(_)
NonZero(a) ==
    CASE a[1] = "num" -> a # Zero
      [] a[1] \in {"sci", "sym"} -> TRUE
      [] a[1] = "pow" -> NonZero(a[2])
      [] a[1] \in {"mul", "div"} -> NonZero(a[2]) /\ NonZero(a[3])
      [] OTHER -> FALSE

RECURSIVE Finite(_)
Finite(a) ==
    CASE a[1] \in {"num", "sci", "sym", "fun"} -> TRUE
      [] a[1] \in {"nan", "inf", "div0"} -> FALSE
      [] a[1] = "div" -> Finite(a[2]) /\ Finite(a[3]) /\ NonZero(a[3])
      [] OTHER -> Finite(a[2]) /\ Finite(a[3])

Add(a, b) ==
    IF IsNum(a) /\ IsNum(b) THEN DecAdd(a, b)
    ELSE IF a = Zero THEN b
    ELSE IF b = Zero THEN a
    ELSE Op("add", a, b)

Neg(a) == IF IsNum(a) THEN DecNeg(a) ELSE Op("sub", Zero, a)

Sub(a, b) ==
    IF IsNum(a) /\ IsNum(b) THEN DecSub(a, b)
    ELSE IF b = Zero THEN a
    ELSE Op("sub", a, b)

Mul(a, b) ==
    IF a = Zero /\ Finite(b) THEN Zero
    ELSE IF b = Zero /\ Finite(a) THEN Zero
    ELSE IF a = One THEN b
    ELSE IF b = One THEN a
    ELSE IF IsDec(a) /\ IsSmallInt(b) THEN DecNorm(a[2] * b[2], a[3] * b[2])
    ELSE IF IsSmallInt(a) /\ IsDec(b) THEN DecNorm(b[2] * a[2], b[3] * a[2])
    ELSE IF IsMilli(a) /\ IsMilli(b) THEN DecNorm(0, Milli(a) * Milli(b))
    ELSE Op("mul", a, b)

\* A division by zero is kept as the expression "div0" (an infinity or a
\* NaN in f64).
Div(a, b) ==
    IF b = Zero THEN Op("div0", a, b)
    ELSE IF a = Zero /\ IsNum(b) THEN Zero
    ELSE IF IsNum(a) /\ a[3] = 0 /\ IsNum(b) /\ b[3] = 0 /\ b[2] > 0
                                                  /\ a[2] % b[2] = 0
         THEN Num(a[2] \div b[2], 0)
    ELSE Op("div", a, b)

\* b.powf(x)
Pow(b, x) == Op("pow", b, x)

RECURSIVE DividesByZero(_)
DividesByZero(a) ==
    IF IsLeaf(a) THEN FALSE
    ELSE a[1] = "div0" \/ DividesByZero(a[2]) \/ DividesByZero(a[3])

(***************************************************************************)
(* crate::consts                                                           *)
(***************************************************************************)
\* Arcseconds to radians
DAS2R == Sym("DAS2R")
\* Reference epoch (J2000.0), Julian Date
DJ00 == Num(2451545, 0)
\* Days per Julian century
DJC == Num(36525, 0)
\* Schwarzschild radius of the Sun (au)
SRS == Sym("SRS")

(***************************************************************************)
(* crate::vm: r-matrices are <<row1, row2, row3>>, p-vectors <<x, y, z>>   *)
(***************************************************************************)
\* copy r-matrix
cr(r) == [i \in 1..3 |-> [j \in 1..3 |-> r[i][j]]]

\* product of two r-matrices, a x b
rxr(a, b) ==
    [i \in 1..3 |-> [j \in 1..3 |->
        Add(Add(Add(Zero, Mul(a[i][1], b[1][j])), Mul(a[i][2], b[2][j])),
            Mul(a[i][3], b[3][j]))]]

\* scalar product of two p-vectors
pdp(a, b) == Add(Add(Mul(a[1], b[1]), Mul(a[2], b[2])), Mul(a[3], b[3]))

\* vector product of two p-vectors
pxp(a, b) ==
    << Sub(Mul(a[2], b[3]), Mul(a[3], b[2])),
       Sub(Mul(a[3], b[1]), Mul(a[1], b[3])),
       Sub(Mul(a[1], b[2]), Mul(a[2], b[1])) >>

\* the r-matrix returned in slot `k' by routine g called with x
FunMatrix(g, k, x) ==
    [i \in 1..3 |-> [j \in 1..3 |-> Fun(g, 9 * k + 3 * (i - 1) + j, x)]]

(***************************************************************************)
(* pnp::pr00, pnp::bp00, pnp::numat                                        *)
(***************************************************************************)
\* IAU 2000 precession-rate adjustments: <<dpsipr, depspr>>
pr00(date1, date2) ==
    << Fun("pr00", 1, <<date1, date2>>), Fun("pr00", 2, <<date1, date2>>) >>

\* frame bias and precession matrices and their product rp x rb
bp00(date1, date2) ==
    LET rbw == FunMatrix("bp00", 0, <<date1, date2>>)
        rpw == FunMatrix("bp00", 1, <<date1, date2>>)
    IN  [rb |-> rbw, rp |-> rpw, rbp |-> rxr(rpw, rbw)]

\* nutation matrix
numat(epsa, dpsi, deps) == FunMatrix("numat", 0, <<epsa, dpsi, deps>>)

(***************************************************************************)
(* pnp::obl80                                                              *)
(***************************************************************************)
\* (the interval taken from date1 alone)
obl80_date1_only(date1, date2) ==
    LET t == Div(Sub(date1, DJ00), DJC)
    IN  Mul(DAS2R,
            Add(Num(84381, 448000),
                Mul(Add(DecNeg(Num(46, 815000)),
                        Mul(Add(DecNeg(Num(0, 590)),
                                Mul(Num(0, 1813), t)), t)), t)))

obl80(date1, date2) ==
    LET t == Div(Add(Sub(date1, DJ00), date2), DJC)
    IN  Mul(DAS2R,
            Add(Num(84381, 448000),
                Mul(Add(DecNeg(Num(46, 815000)),
                        Mul(Add(DecNeg(Num(0, 590)),
                                Mul(Num(0, 1813), t)), t)), t)))


(***************************************************************************)
(* astro::refco                                                            *)
(***************************************************************************)
\* (the switch with the boundary on the radio side)
refco_optic_lt(wl) == Lt(wl, Num(100, 0))

\* Decide whether optical/IR or radio case: switch at 100 microns.
refco_optic(wl) == Le(wl, Num(100, 0))

\* (the temperature limited from below only)
refco_t_floor(tc) == Max(tc, DecNeg(Num(150, 0)))

\* Restrict parameters to safe values.
refco_t(tc) == Min(Max(tc, DecNeg(Num(150, 0))), Num(200, 0))
refco_p(phpa) == Min(Max(phpa, Zero), Num(10000, 0))
refco_r(rh) == Min(Max(rh, Zero), One)
refco_w(wl) == Min(Max(wl, Num(0, 100000)), Num(1000000, 0))

\* (the water vapour pressure without the test for zero pressure)
refco_pw_unguarded(p, t, r) ==
    LET ps == Mul(Pow(Num(10, 0),
                      Div(Add(Num(0, 785900), Mul(Num(0, 34770), t)),
                          Add(One, Mul(Num(0, 4120), t)))),
                  Add(One, Mul(p, Add(Sci(45, -7),
                                      Mul(Mul(Sci(6, -10), t), t)))))
    IN  Div(Mul(r, ps), Sub(One, Div(Mul(Sub(One, r), ps), p)))

\* Water vapour pressure at the observer.
refco_pw(p, t, r) ==
    IF Gt(p, Zero)
    THEN LET ps == Mul(Pow(Num(10, 0),
                           Div(Add(Num(0, 785900), Mul(Num(0, 34770), t)),
                               Add(One, Mul(Num(0, 4120), t)))),
                       Add(One, Mul(p, Add(Sci(45, -7),
                                           Mul(Mul(Sci(6, -10), t), t)))))
         IN  Div(Mul(r, ps), Sub(One, Div(Mul(Sub(One, r), ps), p)))
    ELSE Zero

\* Refractive index minus 1 at the observer.
refco_gamma(optic, p, w, pw, tk) ==
    IF optic
    THEN LET wlsq == Mul(w, w)
         IN  Div(Sub(Mul(Add(Sci(7753484, -11),
                             Div(Add(Sci(439108, -12),
                                     Div(Sci(3666, -12), wlsq)), wlsq)), p),
                     Mul(Sci(112684, -10), pw)), tk)
    ELSE Div(Sub(Mul(Sci(776890, -10), p),
                 Mul(Sub(Sci(63938, -10), Div(Num(0, 375463), tk)), pw)), tk)

\* Formula for beta from Stone, with empirical adjustments.
refco_beta(optic, pw, tk) ==
    LET beta == Mul(Sci(44474, -10), tk)
    IN  IF ~optic THEN Sub(beta, Mul(Mul(Num(0, 7400), pw), beta)) ELSE beta

\* The frame of refco at its return; the function returns (refa, refb).
refco(phpa, tc, rh, wl) ==
    LET optic == refco_optic(wl)
        t == refco_t(tc)
        p == refco_p(phpa)
        r == refco_r(rh)
        w == refco_w(wl)
        pw == refco_pw(p, t, r)
        tk == Add(t, Num(273, 150000))
        gamma == refco_gamma(optic, p, w, pw, tk)
        beta == refco_beta(optic, pw, tk)
        \* Refraction constants from Green.
        refa == Mul(gamma, Sub(One, beta))
        refb == Mul(Neg(gamma), Sub(beta, Div(gamma, Num(2, 0))))
    IN  [optic |-> optic, t |-> t, p |-> p, r |-> r, w |-> w, pw |-> pw,
         tk |-> tk, gamma |-> gamma, beta |-> beta,
         refa |-> refa, refb |-> refb]

(***************************************************************************)
(* astro::ld                                                               *)
(***************************************************************************)
\* (the deflection scale without the limiter)
ld_w_unlimited(bm, em, qdqpe, dlim) == Div(Div(Mul(bm, SRS), em), qdqpe)

\* let w = bm * SRS / em / qdqpe.max(dlim);
ld_w(bm, em, qdqpe, dlim) == Div(Div(Mul(bm, SRS), em), Max(qdqpe, dlim))

\* The frame of ld at its return; the function returns p1.
ld(bm, p, q, e, em, dlim) ==
    LET qpe == [i \in 1..3 |-> Add(q[i], e[i])]
        qdqpe == pdp(q, qpe)
        w == ld_w(bm, em, qdqpe, dlim)
        eq == pxp(e, q)
        peq == pxp(p, eq)
        p1 == [i \in 1..3 |-> Add(p[i], Mul(w, peq[i]))]
    IN  [qpe |-> qpe, qdqpe |-> qdqpe, w |-> w, eq |-> eq, peq |-> peq,
         p1 |-> p1]

(***************************************************************************)
(* The caller.  One call of one routine: fn names it, args holds its       *)
(* arguments, ret what it returned.  For pn00 the five r-matrix arguments  *)
(* are references into the caller's storage: ptr gives the slot each one   *)
(* refers to and mem the content of the slots.  filled lists the outputs   *)
(* of pn00 in the order its statements have written them, and used has,    *)
(* for each statement of pn00 executed, the set of variables and outputs   *)
(* whose content the statement read.                                       *)
(***************************************************************************)
VARIABLES fn, pc, args, ret,
          ptr, mem, filled, used,
          dpsipr, depspr, epsa, rbpw, rnw

vars == <<fn, pc, args, ret, ptr, mem, filled, used,
          dpsipr, depspr, epsa, rbpw, rnw>>

pn00Locals == <<dpsipr, depspr, epsa, rbpw, rnw>>
caller == <<fn, args, ptr>>

\* Number of Julian centuries either side of J2000.0 on the date grid
MaxCentury == 2

Outputs == {"rb", "rp", "rbp", "rn", "rbpn"}
Slots == 1..5

\* What a slot of the caller holds before the call
Stale(s) == FunMatrix("caller", s, <<>>)
ZeroMatrix == [i \in 1..3 |-> [j \in 1..3 |-> Zero]]

\* five independent arrays
Distinct == [rb |-> 1, rp |-> 2, rbp |-> 3, rn |-> 4, rbpn |-> 5]
\* one array re-used for the five returned arguments (doc note 9)
AllSame == [rb |-> 1, rp |-> 1, rbp |-> 1, rn |-> 1, rbpn |-> 1]
\* one scratch array for what the caller does not want, one for rbpn
Scratch == [rb |-> 1, rp |-> 1, rbp |-> 1, rn |-> 1, rbpn |-> 2]
Layouts == {Distinct, AllSame, Scratch}
\* a call that takes no r-matrix references
NoStorage == [rb |-> 0, rp |-> 0, rbp |-> 0, rn |-> 0, rbpn |-> 0]

\* TT as a 2-part Julian Date: whole centuries from J2000.0 by the JD
\* method's split (date1 = J2000.0) and by the MJD method's (date1 =
\* 2400000.5), and the date 2400000.5 + 53736.0
Dates ==
    {<<DJ00, Num(36525 * k, 0)>> : k \in -MaxCentury..MaxCentury}
    \cup {<<Num(2400000, 500000), DecAdd(Num(51544, 500000), Num(36525 * k, 0))>> :
             k \in -MaxCentury..MaxCentury}
    \cup {<<Num(2400000, 500000), Num(53736, 0)>>}

\* nutation components (radians)
Nutations == {Zero, Num(0, 50), DecNeg(Num(0, 40))}

Shared(s) == Cardinality({o \in Outputs : ptr[o] = s}) > 1

\* A store of v through the reference to slot s.  Two live &mut to one
\* slot is undefined behaviour: the references are noalias, so the build
\* may order the stores through them freely, and a store to a slot
\* another reference has already filled may end up before it.
Stores(m, s, v) ==
    {[m EXCEPT ![s] = v]}
    \cup (IF Shared(s) /\ m[s] # Stale(s) THEN {m} ELSE {})

\* pressures (hPa), temperatures (deg C), relative humidities and
\* wavelengths (micrometers) on, inside and outside the safe ranges
Pressures == {DecNeg(Num(10, 0)), Zero, Num(1005, 0), Num(10000, 0),
              Num(20000, 0), NaN}
Temperatures == {DecNeg(Num(200, 0)), DecNeg(Num(150, 0)), Num(7, 0),
                 Num(200, 0), Num(1000, 0), NaN, PInf, NInf}
Humidities == {DecNeg(Num(0, 500000)), Zero, Num(0, 800000), One,
               Num(1, 500000), NaN}
Wavelengths == {DecNeg(Num(5, 0)), Zero, Num(0, 50000), Num(0, 100000),
                Num(0, 574000), Num(100, 0), Num(100, 100), Num(200, 0),
                Num(1000000, 0), Num(2000000, 0), NaN, PInf, NInf}

\* unit vectors, masses (solar masses), distances (au) and limiters
Units == { <<One, Zero, Zero>>, <<DecNeg(One), Zero, Zero>>,
           <<Zero, One, Zero>>,
           <<Num(0, 600000), Num(0, 800000), Zero>>,
           <<DecNeg(Num(0, 600000)), DecNeg(Num(0, 800000)), Zero>>,
           <<Zero, DecNeg(Num(0, 800000)), Num(0, 600000)>> }
Masses == {One, Num(0, 954)}
Distances == {Zero, One, Num(5, 200000)}
Limiters == {Zero, Num(0, 1), Num(0, 400000), Num(0, 500000)}

InitPn00 ==
    /\ fn = "pn00"
    /\ pc = "pr00"
    /\ \E d \in Dates, n1 \in Nutations, n2 \in Nutations :
          args = [date1 |-> d[1], date2 |-> d[2], dpsi |-> n1, deps |-> n2]
    /\ ptr \in Layouts

InitObl80 ==
    /\ fn = "obl80"
    /\ pc = "call"
    /\ \E d \in Dates : args = [date1 |-> d[1], date2 |-> d[2]]
    /\ ptr = NoStorage

InitRefco ==
    /\ fn = "refco"
    /\ pc = "call"
    /\ args \in [phpa : Pressures, tc : Temperatures, rh : Humidities,
                 wl : Wavelengths]
    /\ ptr = NoStorage

InitLd ==
    /\ fn = "ld"
    /\ pc = "call"
    /\ args \in [bm : Masses, p : Units, q : Units, e : Units,
                 em : Distances, dlim : Limiters]
    /\ ptr = NoStorage

Init ==
    /\ InitPn00 \/ InitObl80 \/ InitRefco \/ InitLd
    /\ ret = Zero
    /\ mem = [s \in {ptr[o] : o \in Outputs} \cap Slots |-> Stale(s)]
    /\ filled = <<>>
    /\ used = <<>>
    /\ dpsipr = Zero /\ depspr = Zero /\ epsa = Zero
    /\ rbpw = ZeroMatrix /\ rnw = ZeroMatrix

(***************************************************************************)
(* pnp::pn00, statement by statement                                       *)
(***************************************************************************)
\* let (dpsipr, depspr) = &mut pr00(date1, date2);
Pn00_pr00 ==
    /\ fn = "pn00" /\ pc = "pr00"
    /\ dpsipr' = pr00(args.date1, args.date2)[1]
    /\ depspr' = pr00(args.date1, args.date2)[2]
    /\ used' = Append(used, {})
    /\ pc' = "obl80"
    /\ UNCHANGED <<caller, ret, mem, filled, epsa, rbpw, rnw>>

\* *epsa = obl80(date1, date2) + *depspr;
Pn00_obl80 ==
    /\ fn = "pn00" /\ pc = "obl80"
    /\ epsa' = Add(obl80(args.date1, args.date2), depspr)
    /\ filled' = Append(filled, "epsa")
    /\ used' = Append(used, {"depspr"})
    /\ pc' = "bp00"
    /\ UNCHANGED <<caller, ret, mem, dpsipr, depspr, rbpw, rnw>>

\* (bp00 called with the rb and rp references exchanged)
Pn00_bp00_exchanged ==
    /\ fn = "pn00" /\ pc = "bp00"
    /\ LET b == bp00(args.date1, args.date2)
       IN  /\ \E m1 \in Stores(mem, ptr.rp, b.rb) :
                 mem' \in Stores(m1, ptr.rb, b.rp)
           /\ rbpw' = b.rbp
    /\ filled' = filled \o <<"rp", "rb">>
    /\ used' = Append(used, {})
    /\ pc' = "cr_rbp"
    /\ UNCHANGED <<caller, ret, dpsipr, depspr, epsa, rnw>>

\* bp00(date1, date2, rb, rp, rbpw);
Pn00_bp00 ==
    /\ fn = "pn00" /\ pc = "bp00"
    /\ LET b == bp00(args.date1, args.date2)
       IN  /\ \E m1 \in Stores(mem, ptr.rb, b.rb) :
                 mem' \in Stores(m1, ptr.rp, b.rp)
           /\ rbpw' = b.rbp
    /\ filled' = filled \o <<"rb", "rp">>
    /\ used' = Append(used, {})
    /\ pc' = "cr_rbp"
    /\ UNCHANGED <<caller, ret, dpsipr, depspr, epsa, rnw>>

\* cr(rbpw, rbp);
Pn00_cr_rbp ==
    /\ fn = "pn00" /\ pc = "cr_rbp"
    /\ mem' \in Stores(mem, ptr.rbp, cr(rbpw))
    /\ filled' = Append(filled, "rbp")
    /\ used' = Append(used, {"rbpw"})
    /\ pc' = "numat"
    /\ UNCHANGED <<caller, ret, pn00Locals>>

\* (numat given the mean obliquity without the adjustment)
Pn00_numat_raw ==
    /\ fn = "pn00" /\ pc = "numat"
    /\ rnw' = numat(obl80(args.date1, args.date2), args.dpsi, args.deps)
    /\ used' = Append(used, {})
    /\ pc' = "cr_rn"
    /\ UNCHANGED <<caller, ret, mem, filled, dpsipr, depspr, epsa, rbpw>>

\* numat(*epsa, dpsi, deps, rnw);
Pn00_numat ==
    /\ fn = "pn00" /\ pc = "numat"
    /\ rnw' = numat(epsa, args.dpsi, args.deps)
    /\ used' = Append(used, {"epsa"})
    /\ pc' = "cr_rn"
    /\ UNCHANGED <<caller, ret, mem, filled, dpsipr, depspr, epsa, rbpw>>

\* cr(rnw, rn);
Pn00_cr_rn ==
    /\ fn = "pn00" /\ pc = "cr_rn"
    /\ mem' \in Stores(mem, ptr.rn, cr(rnw))
    /\ filled' = Append(filled, "rn")
    /\ used' = Append(used, {"rnw"})
    /\ pc' = "rxr"
    /\ UNCHANGED <<caller, ret, pn00Locals>>

\* (the product taken from the rn and rbp outputs, not the temporaries)
Pn00_rxr_from_outputs ==
    /\ fn = "pn00" /\ pc = "rxr"
    /\ mem' \in Stores(mem, ptr.rbpn, rxr(mem[ptr.rn], mem[ptr.rbp]))
    /\ filled' = Append(filled, "rbpn")
    /\ used' = Append(used, {"rn", "rbp"})
    /\ pc' = "done"
    /\ UNCHANGED <<caller, ret, pn00Locals>>

\* (the product taken in the reverse order)
Pn00_rxr_reversed ==
    /\ fn = "pn00" /\ pc = "rxr"
    /\ mem' \in Stores(mem, ptr.rbpn, rxr(rbpw, rnw))
    /\ filled' = Append(filled, "rbpn")
    /\ used' = Append(used, {"rnw", "rbpw"})
    /\ pc' = "done"
    /\ UNCHANGED <<caller, ret, pn00Locals>>

\* rxr(rnw, rbpw, rbpn);
Pn00_rxr ==
    /\ fn = "pn00" /\ pc = "rxr"
    /\ mem' \in Stores(mem, ptr.rbpn, rxr(rnw, rbpw))
    /\ filled' = Append(filled, "rbpn")
    /\ used' = Append(used, {"rnw", "rbpw"})
    /\ pc' = "done"
    /\ UNCHANGED <<caller, ret, pn00Locals>>

(***************************************************************************)
(* Calls of the pure functions                                             *)
(***************************************************************************)
Call_obl80 ==
    /\ fn = "obl80" /\ pc = "call"
    /\ ret' = obl80(args.date1, args.date2)
    /\ pc' = "done"
    /\ UNCHANGED <<caller, mem, filled, used, pn00Locals>>

Call_refco ==
    /\ fn = "refco" /\ pc = "call"
    /\ ret' = refco(args.phpa, args.tc, args.rh, args.wl)
    /\ pc' = "done"
    /\ UNCHANGED <<caller, mem, filled, used, pn00Locals>>

Call_ld ==
    /\ fn = "ld" /\ pc = "call"
    /\ ret' = ld(args.bm, args.p, args.q, args.e, args.em, args.dlim)
    /\ pc' = "done"
    /\ UNCHANGED <<caller, mem, filled, used, pn00Locals>>

Next ==
    \/ Pn00_pr00
    \/ Pn00_obl80
    \/ Pn00_bp00
    \/ Pn00_cr_rbp
    \/ Pn00_numat
    \/ Pn00_cr_rn
    \/ Pn00_rxr
    \/ Call_obl80
    \/ Call_refco
    \/ Call_ld

Spec == Init /\ [][Next]_vars

(***************************************************************************)
(* Properties                                                              *)
(***************************************************************************)
Returned(o) == mem[ptr[o]]
Pn00Done == fn = "pn00" /\ pc = "done"
\* The mean obliquity pn00 is to return and hand to numat
AdjustedObliquity ==
    Add(obl80(args.date1, args.date2), pr00(args.date1, args.date2)[2])

\* C1: with five independent arrays, the rbpn that pn00 returns is the
\* product rn x rbp of the rn and the rbp it returns, nutation on the left.
C1_FullMatrixIsRnTimesRbp ==
    (Pn00Done /\ ptr = Distinct) =>
        Returned("rbpn") = rxr(Returned("rn"), Returned("rbp"))

\* A call has returned whose two orders of the product differ, and rbpn is
\* rn x rbp.
C1_Witness ==
    /\ Pn00Done /\ ptr = Distinct
    /\ rxr(Returned("rn"), Returned("rbp")) # rxr(Returned("rbp"), Returned("rn"))
    /\ Returned("rbpn") = rxr(Returned("rn"), Returned("rbp"))

\* What a call with five independent arrays returns in output o
Independent(o) ==
    LET b == bp00(args.date1, args.date2)
        n == numat(AdjustedObliquity, args.dpsi, args.deps)
    IN  CASE o = "rb" -> b.rb
          [] o = "rp" -> b.rp
          [] o = "rbp" -> b.rbp
          [] o = "rn" -> n
          [] o = "rbpn" -> rxr(n, b.rbp)

C3_NumatReceivesAdjustedObliquity ==
    fn = "pn00" =>
        /\ pc \in {"bp00", "cr_rbp", "numat", "cr_rn", "rxr", "done"} =>
              epsa = AdjustedObliquity
        /\ pc \in {"cr_rn", "rxr", "done"} =>
              rnw = numat(AdjustedObliquity, args.dpsi, args.deps)
        /\ (pc = "done" /\ ptr = Distinct) =>
              Returned("rn") = numat(AdjustedObliquity, args.dpsi, args.deps)

\* A call has returned a nutation matrix that is numat of the adjusted
\* obliquity and differs from numat of the mean obliquity of obl80.
C3_Witness ==
    /\ Pn00Done /\ ptr = Distinct
    /\ epsa # obl80(args.date1, args.date2)
    /\ Returned("rn") = numat(epsa, args.dpsi, args.deps)
    /\ Returned("rn") # numat(obl80(args.date1, args.date2), args.dpsi, args.deps)

\* C4: with five independent arrays, from the step that fills them to the
\* return, rb and rp are the matrices of bp00(date1, date2) and rbp is its
\* product, so that rbp = rp x rb.
C4_BiasPrecessionForwarded ==
    (fn = "pn00" /\ ptr = Distinct) =>
        /\ pc \in {"cr_rbp", "numat", "cr_rn", "rxr", "done"} =>
              /\ Returned("rb") = bp00(args.date1, args.date2).rb
              /\ Returned("rp") = bp00(args.date1, args.date2).rp
        /\ pc \in {"numat", "cr_rn", "rxr", "done"} =>
              /\ Returned("rbp") = bp00(args.date1, args.date2).rbp
              /\ Returned("rbp") = rxr(Returned("rp"), Returned("rb"))

\* A call has returned rb, rp and rbp = rp x rb, the two orders of that
\* product being different.
C4_Witness ==
    /\ Pn00Done /\ ptr = Distinct
    /\ Returned("rbp") = rxr(Returned("rp"), Returned("rb"))
    /\ Returned("rbp") # rxr(Returned("rb"), Returned("rp"))
    /\ Returned("rb") # Returned("rp")

RefcoDone == fn = "refco" /\ pc = "done"
RefcoResult(f) == <<f.refa, f.refb>>
\* x, or the bound of lo..hi nearest to it when it lies outside
Nearest(x, lo, hi) == IF Lt(x, lo) THEN lo ELSE IF Gt(x, hi) THEN hi ELSE x

C6_ZeroPressureGivesZeroes ==
    (RefcoDone /\ args.phpa = Zero) => RefcoResult(ret) = <<Zero, Zero>>

\* refco has returned (0.0, 0.0) for pressure 0 in the radio case.
C6_Witness ==
    /\ RefcoDone /\ args.phpa = Zero
    /\ ~ret.optic /\ args.rh = Num(0, 800000) /\ args.tc = Num(7, 0)
    /\ RefcoResult(ret) = <<Zero, Zero>>

\* C7: refco takes the optical/IR formulae for a wavelength of exactly
\* 100.0 and the radio formulae for any wavelength above 100.0, and decides
\* it on the wavelength the caller gave, not on the clamped one.
C7_BranchAtHundredMicrons ==
    RefcoDone =>
        /\ args.wl = Num(100, 0) => ret.optic
        /\ Gt(args.wl, Num(100, 0)) => ~ret.optic
        /\ ret.optic = Le(args.wl, Num(100, 0))
        /\ ret.gamma = refco_gamma(ret.optic, ret.p, ret.w, ret.pw, ret.tk)
        /\ ret.beta = refco_beta(ret.optic, ret.pw, ret.tk)

\* refco has taken the optical/IR formulae for a wavelength of exactly 100.0,
\* where the radio formulae give another result.
C7_Witness ==
    /\ RefcoDone
    /\ args.wl = Num(100, 0) /\ ret.optic
    /\ ret.gamma # Zero
    /\ ret.gamma # refco_gamma(FALSE, ret.p, ret.w, ret.pw, ret.tk)

\* C8: a wl in the range 0-100 selects the optical/IR case and any wl
\* outside this range, a negative one included, selects the radio case.
C8_OutsideZeroToHundredIsRadio ==
    RefcoDone =>
        ret.optic = (Ge(args.wl, Zero) /\ Le(args.wl, Num(100, 0)))

LdDone == fn = "ld" /\ pc = "done"
\* a division by zero has been made on the way to the value returned
LdDividesByZero ==
    DividesByZero(ret.w) \/ \E i \in 1..3 : DividesByZero(ret.p1[i])
\* max(q.(q+e), dlim), written without f64::max
LdDivisor ==
    IF Ge(pdp(args.q, [i \in 1..3 |-> Add(args.q[i], args.e[i])]), args.dlim)
    THEN pdp(args.q, [i \in 1..3 |-> Add(args.q[i], args.e[i])])
    ELSE args.dlim

\* C9 as stated: in every call of ld with dlim > 0 no division by zero
\* occurs, the deflection term being divided by max(q.(q+e), dlim).
C9_NoDivisionByZero ==
    (LdDone /\ Gt(args.dlim, Zero)) =>
        /\ ~LdDividesByZero
        /\ ret.w = Div(Div(Mul(args.bm, SRS), args.em), LdDivisor)
        /\ Ge(LdDivisor, args.dlim)

\* C9 as amended: in every call of ld with dlim > 0 and em # 0 no division
\* by zero occurs: the deflection term is divided by max(q.(q+e), dlim),
\* which is at least dlim, and is q.(q+e) when that is at least dlim.
C9_NoDivisionByZeroForNonZeroDistance ==
    (LdDone /\ Gt(args.dlim, Zero) /\ args.em # Zero) =>
        /\ ~LdDividesByZero
        /\ ret.w = Div(Div(Mul(args.bm, SRS), args.em), LdDivisor)
        /\ Ge(LdDivisor, args.dlim) /\ LdDivisor # Zero
        /\ Ge(ret.qdqpe, args.dlim) => LdDivisor = ret.qdqpe

\* ld has returned for q = -e, where q.(q+e) is 0, with a positive limiter
\* and a non-zero distance, without dividing by zero: the deflection term
\* was divided by dlim and, e x q being 0, p1 is p.
C9_Witness ==
    /\ LdDone /\ Gt(args.dlim, Zero) /\ args.em # Zero
    /\ ret.qdqpe = Zero
    /\ ret.w = Div(Div(Mul(args.bm, SRS), args.em), args.dlim)
    /\ ~LdDividesByZero
    /\ ret.p1 = args.p

Obl80Done == fn = "obl80" /\ pc = "done"
\* 84381.448 - 46.8150 k - 0.00059 k^2 + 0.001813 k^3, term by term
Cubic(k) ==
    DecAdd(DecAdd(DecAdd(Num(84381, 448000),
                         DecNorm(-46 * k, -815000 * k)),
                  DecNorm(0, -590 * k * k)),
           DecNorm(0, 1813 * k * k * k))

\* C10: obl80(2451545.0, 0.0) is 84381.448 arcseconds converted to radians,
\* and a date k whole centuries from J2000.0, however it is split into
\* date1 and date2, gives the cubic 84381.448 - 46.8150 t - 0.00059 t^2 +
\* 0.001813 t^3 at t = k, converted to radians.
C10_Obl80IsTheCubic ==
    Obl80Done =>
        /\ (args.date1 = Num(2451545, 0) /\ args.date2 = Zero) =>
              ret = Mul(DAS2R, Num(84381, 448000))
        /\ \A k \in -MaxCentury..MaxCentury :
              DecAdd(args.date1, args.date2) = DecAdd(Num(2451545, 0), Num(36525 * k, 0))
                  => ret = Op("mul", DAS2R, Cubic(k))

\* obl80 has returned 84381.448 arcseconds in radians for J2000.0.
C10_Witness ==
    /\ Obl80Done
    /\ args.date1 = Num(2451545, 0) /\ args.date2 = Zero
    /\ ret = Op("mul", DAS2R, Num(84381, 448000))

\* The order in which pn00 is to fill its outputs; rb and rp are filled by
\* the one call of bp00, in the order bp00 chooses
FillOrders ==
    { <<"epsa", "rb", "rp", "rbp", "rn", "rbpn">>,
      <<"epsa", "rp", "rb", "rbp", "rn", "rbpn">> }
IsPrefix(s, t) == Len(s) <= Len(t) /\ s = SubSeq(t, 1, Len(s))
Written == {filled[i] : i \in 1..Len(filled)}

\* C11: pn00 fills epsa, then rb and rp, then rbp, then rn, then rbpn; no
\* statement of pn00 reads a matrix output that an earlier statement has
\* written; the product is taken from the temporaries rnw and rbpw, so for
\* every layout of the caller's arrays the value computed for rbpn is the
\* one computed with five independent arrays, and it is what an rbpn array
\* that is not re-used holds on return.
C11_FilledInOrderFromTemporaries ==
    /\ [](fn = "pn00" => \E t \in FillOrders : IsPrefix(filled, t))
    /\ [](Pn00Done => filled \in FillOrders)
    /\ [][used' # used =>
              (used'[Len(used')] \cap Outputs) \cap Written = {}]_vars
    /\ []((fn = "pn00" /\ pc \in {"rxr", "done"}) =>
              rxr(rnw, rbpw) = Independent("rbpn"))
    /\ []((Pn00Done /\ ~Shared(ptr.rbpn)) =>
              /\ used[Len(used)] = {"rnw", "rbpw"}
              /\ Returned("rbpn") = Independent("rbpn"))

\* A call has returned in which rn was written over the array that held
\* rbp, after rbp was filled, and rbpn is still rn x rbp of the temporaries.
C11_Witness ==
    /\ Pn00Done /\ ptr = Scratch
    /\ filled = <<"epsa", "rb", "rp", "rbp", "rn", "rbpn">>
    /\ Returned("rbp") = Independent("rn")
    /\ Independent("rn") # Independent("rbp")
    /\ used[Len(used)] = {"rnw", "rbpw"}
    /\ Returned("rbpn") = Independent("rbpn")

=============================================================================
